---- MODULE Spec2Model ----
(***************************************************************************)
(* booktranslate: the chunk / translate / reassemble pipeline.             *)
(*                                                                         *)
(*   state_manager.py        StateManager: job files, atomic writes, log   *)
(*   translation_manager.py  TranslationManager: retries and batches       *)
(*   epub_processor.py       EPubProcessor: split_content, reassemble      *)
(*                                                                         *)
(* A unit id "chunk-<n>" is modelled by its number n.  A Python dict is a  *)
(* function; the empty dict is <<>>.                                       *)
(***************************************************************************)
EXTENDS Integers, Sequences, FiniteSets, TLC

\* ------------------------------------------------------------------ bounds

\* Largest unit list handed to process_batch.
MaxUnits == 3

\* batch_size of process_batch.  The source sets 10; the model runs the same
\* loop with a smaller batch so that several batches fit in MaxUnits units.
batch_size == 2

\* Number of save calls of one behaviour of the store harness (SpecStore).
MaxOps == 3

\* Longest content, in tokens, and largest max_chunk_size given to
\* split_content.
MaxContentLen == 5
MaxLimit == 12

\* Most members of an input file, and most paragraphs of a member.
MaxMembers == 2
MaxParagraphs == 2
MaxPages == 2

\* The default max_chunk_size of split_content, which extract_chunks and
\* reassemble use.  The source sets 10000; the model's texts are a few tokens
\* long and its chunk size is as much smaller.
DefaultMaxChunkSize == 9

\* max_retries of process_chunk.
max_retries == 3

VARIABLES
    \* --- StateManager
    files,              \* path -> [st: "absent" | "partial" | "full", data]
    progress_log,       \* the lines of progress.log, oldest first
    stdout,             \* what log_progress printed instead of appending
    state_cache,        \* _state_cache: [set, val]
    translations_cache, \* _translations_cache: [ref: "none" | "local" | "value", val]
    aw,                 \* the running _atomic_write call: [pc, path, data, caller]
    crashed,            \* the process was terminated
    \* --- TranslationManager.process_batch
    phase,              \* position of the caller
    n_chunks,           \* len(chunks); the units are chunk-0 .. chunk-(n-1)
    i,                  \* the batch loop's index
    k,                  \* position of the zip loop in the batch
    translations,       \* the local dict of process_batch
    pc,                 \* unit -> position of its process_chunk task
    attempt,            \* unit -> loop variable of process_chunk
    result,             \* unit -> what process_chunk returned
    calls,              \* unit -> number of transform calls made for it
    fails,              \* unit -> number of those calls that raised
    slept,              \* unit -> the asyncio.sleep durations of its task
    returned,           \* what process_batch returned: [set, val]
    prior,              \* the translations file the run started from
    nops,               \* store harness: save calls made so far
    \* --- EPubProcessor
    content,            \* split_content's argument content
    limit,              \* split_content's argument max_chunk_size
    out,                \* what the call did: [st: "none" | "ok" | "raised", chunks]
    doc,                \* the members of the input EPUB: <<[filename, content], ...>>
    extracted,          \* what extract_chunks did: [st, chunks, chapter_map]
    re_translations,    \* reassemble's argument translations
    output,             \* what reassemble did: [st, members]
    \* --- PDFHandler
    transcribed,        \* what transcribe_pdf did: [st, chunks, chapter_map]
    \* --- callers of the store
    loaded              \* what the last load call did: [op, st: "ok" | "raised", val]

storeVars == <<files, progress_log, stdout, state_cache, translations_cache, aw, crashed>>
jobVars == <<phase, n_chunks, i, k, translations, pc, attempt, result, calls, fails,
             slept, returned, prior, nops>>
pureVars == <<content, limit, out, doc, extracted, re_translations, output, transcribed, loaded>>
vars == <<storeVars, jobVars, pureVars>>

\* ------------------------------------------------------------ small helpers

Min(a, b) == IF a < b THEN a ELSE b

\* d with d[key] = val (Python: d[key] = val).
DictSet(d, key, val) == [x \in (DOMAIN d) \cup {key} |-> IF x = key THEN val ELSE d[x]]

\* ------------------------------------------------------------- StateManager

TargetPaths == {"state_file", "chunks_file", "translations_file"}
TmpPaths == {"state_tmp", "chunks_tmp", "translations_tmp"}
Paths == TargetPaths \cup TmpPaths

Absent == [st |-> "absent", data |-> <<>>]
\* A file holding a JSON document cut short (an empty file included).
Partial == [st |-> "partial", data |-> <<>>]
Full(data) == [st |-> "full", data |-> data]

\* The mutant of temp_path: the write goes to the target itself.
temp_path_in_place(path) == path

\* path.with_suffix('.tmp')
temp_path(path) ==
    CASE path = "state_file" -> "state_tmp"
      [] path = "chunks_file" -> "chunks_tmp"
      [] path = "translations_file" -> "translations_tmp"
      [] OTHER -> path

AwIdle == [pc |-> "idle", path |-> "", data |-> <<>>, caller |-> ""]

\* The call self._atomic_write(path, data) made by `caller`.
AwCall(path, data, caller) ==
    [pc |-> "begin", path |-> path, data |-> data, caller |-> caller]

\* open(temp_path, 'w'): the temporary file exists and is empty.
AwOpen ==
    /\ ~crashed
    /\ aw.pc = "begin"
    /\ files' = [files EXCEPT ![temp_path(aw.path)] = Partial]
    /\ aw' = [aw EXCEPT !.pc = "opened"]
    /\ UNCHANGED <<progress_log, stdout, state_cache, translations_cache, crashed>>
    /\ UNCHANGED <<jobVars, pureVars>>

\* json.dump(data, f); f.flush(); os.fsync(f.fileno()); the file is closed.
AwDump ==
    /\ ~crashed
    /\ aw.pc = "opened"
    /\ files' = [files EXCEPT ![temp_path(aw.path)] = Full(aw.data)]
    /\ aw' = [aw EXCEPT !.pc = "written"]
    /\ UNCHANGED <<progress_log, stdout, state_cache, translations_cache, crashed>>
    /\ UNCHANGED <<jobVars, pureVars>>

\* temp_path.replace(path): a rename; onto itself it changes nothing.
AwReplace ==
    /\ ~crashed
    /\ aw.pc = "written"
    /\ files' = IF temp_path(aw.path) = aw.path
                THEN files
                ELSE [files EXCEPT ![aw.path] = files[temp_path(aw.path)],
                                   ![temp_path(aw.path)] = Absent]
    /\ aw' = [aw EXCEPT !.pc = "replaced"]
    /\ UNCHANGED <<progress_log, stdout, state_cache, translations_cache, crashed>>
    /\ UNCHANGED <<jobVars, pureVars>>

\* finally: if temp_path.exists(): temp_path.unlink(); then the call returns,
\* or the exception of the try block goes on to the caller.
AwFinally ==
    /\ ~crashed
    /\ aw.pc \in {"replaced", "failing"}
    /\ files' = IF files[temp_path(aw.path)].st # "absent"
                THEN [files EXCEPT ![temp_path(aw.path)] = Absent]
                ELSE files
    /\ aw' = [aw EXCEPT !.pc = IF aw.pc = "replaced" THEN "return" ELSE "raise"]
    /\ UNCHANGED <<progress_log, stdout, state_cache, translations_cache, crashed>>
    /\ UNCHANGED <<jobVars, pureVars>>

\* A statement of the try block raises (disk full, permission): open before
\* the temporary file exists, json.dump / flush / fsync with the file partly
\* written, replace with the file complete.  No file changes in the step.
AwRaise ==
    /\ ~crashed
    /\ aw.pc \in {"begin", "opened", "written"}
    /\ aw' = [aw EXCEPT !.pc = "failing"]
    /\ UNCHANGED <<files, progress_log, stdout, state_cache, translations_cache, crashed>>
    /\ UNCHANGED <<jobVars, pureVars>>

\* An exception that save_translations lets through inside the zip loop is
\* caught there and the loop goes on.
SwallowSaveError(ph) == IF ph = "saving" THEN "zip" ELSE ph

\* Where the caller of a save call is after the call raised: process_batch
\* has no try around save_translations, so it is left with the exception.
PropagateSaveError(ph) == IF ph = "saving" THEN "raised" ELSE ph

\* The exception leaves save_state / save_translations / save_chunks (the
\* assignment of the cache is skipped) and reaches the caller.
SaveRaises ==
    /\ ~crashed
    /\ aw.pc = "raise"
    /\ aw' = AwIdle
    /\ phase' = PropagateSaveError(phase)
    /\ UNCHANGED <<files, progress_log, stdout, state_cache, translations_cache, crashed>>
    /\ UNCHANGED <<n_chunks, i, k, translations, pc, attempt, result, calls, fails, slept,
                   returned, prior, nops>>
    /\ UNCHANGED pureVars

\* log_progress(message): the log after the call; `ok` is whether the append
\* worked.  (The timestamp of a line is left out.)
log_progress(log, message, ok) == IF ok THEN Append(log, message) ELSE log

\* The exception of the append leaves log_progress and ends the caller.
LogRaises(ph, ok) == IF ok THEN ph ELSE "raised"

\* Where the caller of log_progress is after the call: `except Exception`
\* catches whatever the append raised, so the caller goes on as after a call
\* that worked.
LogReturns(ph, ok) == ph

\* What log_progress prints when the append raised.
log_fallback(printed, message, ok) == IF ok THEN printed ELSE Append(printed, message)

\* The process is terminated: nothing runs any more; the files stay.
Crash ==
    /\ ~crashed
    /\ phase # "done"
    /\ crashed' = TRUE
    /\ UNCHANGED <<files, progress_log, stdout, state_cache, translations_cache, aw>>
    /\ UNCHANGED <<jobVars, pureVars>>

\* ------------------------------------------------- the store's save calls

\* The state record of save_state; `now` stands for datetime.now().
StateRecord(chunks_total, chunks_completed, now) ==
    [chunks_total |-> chunks_total, chunks_completed |-> chunks_completed,
     last_updated |-> now]

\* The chunks_data of save_chunks; an item is already a string.
ChunksData(chunks, chapter_map) ==
    [chunks |-> chunks,
     chapter_map |-> [id \in DOMAIN chapter_map |->
                        [item |-> chapter_map[id][1], pos |-> chapter_map[id][2]]]]

\* The chunks_data of save_chunks for a chapter map whose values are dicts
\* {"item": ..., "pos": ...}: `for id, (item, pos) in chapter_map.items()`
\* unpacks a dict into its keys, so item is 'item' and pos is 'pos'.
ChunksDataFromDicts(chunks, chapter_map) ==
    [chunks |-> chunks,
     chapter_map |-> [id \in DOMAIN chapter_map |-> [item |-> "item", pos |-> "pos"]]]

\* Arguments of the harness's calls.
StoreTotals == {1, 2}
StoreCompleted == {0, 1, 2}
StoreMaps == {<<>>, (0 :> "old"), (0 :> "new"), (0 :> "old" @@ 1 :> "new")}
StoreChunkLists ==
    { [chunks |-> <<>>, chapter_map |-> <<>>],
      [chunks |-> << <<0, "a">> >>, chapter_map |-> (0 :> <<"ch1.html", 0>>)],
      [chunks |-> << <<0, "a">>, <<1, "b">> >>,
       chapter_map |-> (0 :> <<"ch1.html", 0>> @@ 1 :> <<"ch1.html", 1>>)] }

CallSaveState(chunks_total, chunks_completed) ==
    /\ ~crashed
    /\ phase = "store"
    /\ aw.pc = "idle"
    /\ nops < MaxOps
    /\ aw' = AwCall("state_file", StateRecord(chunks_total, chunks_completed, nops),
                    "save_state")
    /\ nops' = nops + 1
    /\ UNCHANGED <<files, progress_log, stdout, state_cache, translations_cache, crashed>>
    /\ UNCHANGED <<phase, n_chunks, i, k, translations, pc, attempt, result, calls,
                   fails, slept, returned, prior>>
    /\ UNCHANGED pureVars

\* self._state_cache = state, after _atomic_write returned.
SaveStateReturn ==
    /\ ~crashed
    /\ aw.pc = "return"
    /\ aw.caller = "save_state"
    /\ state_cache' = [set |-> TRUE, val |-> aw.data]
    /\ aw' = AwIdle
    /\ UNCHANGED <<files, progress_log, stdout, translations_cache, crashed>>
    /\ UNCHANGED <<jobVars, pureVars>>

CallSaveTranslations(m) ==
    /\ ~crashed
    /\ phase = "store"
    /\ aw.pc = "idle"
    /\ nops < MaxOps
    /\ aw' = AwCall("translations_file", m, "save_translations")
    /\ nops' = nops + 1
    /\ UNCHANGED <<files, progress_log, stdout, state_cache, translations_cache, crashed>>
    /\ UNCHANGED <<phase, n_chunks, i, k, translations, pc, attempt, result, calls,
                   fails, slept, returned, prior>>
    /\ UNCHANGED pureVars

\* self._translations_cache = translations, after _atomic_write returned.  The
\* cache is the caller's dict itself: in process_batch it is the local dict
\* (ref "local"), which the loop goes on changing.
SaveTranslationsReturn ==
    /\ ~crashed
    /\ aw.pc = "return"
    /\ aw.caller = "save_translations"
    /\ translations_cache' = IF phase = "saving"
                             THEN [ref |-> "local", val |-> <<>>]
                             ELSE [ref |-> "value", val |-> aw.data]
    /\ aw' = AwIdle
    /\ phase' = IF phase = "saving" THEN "zip" ELSE phase
    /\ k' = IF phase = "saving" THEN k + 1 ELSE k
    /\ UNCHANGED <<files, progress_log, stdout, state_cache, crashed>>
    /\ UNCHANGED <<n_chunks, i, translations, pc, attempt, result, calls, fails, slept,
                   returned, prior, nops>>
    /\ UNCHANGED pureVars

CallSaveChunks(c) ==
    /\ ~crashed
    /\ phase = "store"
    /\ aw.pc = "idle"
    /\ nops < MaxOps
    /\ aw' = AwCall("chunks_file", ChunksData(c.chunks, c.chapter_map), "save_chunks")
    /\ nops' = nops + 1
    /\ UNCHANGED <<files, progress_log, stdout, state_cache, translations_cache, crashed>>
    /\ UNCHANGED <<phase, n_chunks, i, k, translations, pc, attempt, result, calls,
                   fails, slept, returned, prior>>
    /\ UNCHANGED pureVars

SaveChunksReturn ==
    /\ ~crashed
    /\ aw.pc = "return"
    /\ aw.caller = "save_chunks"
    /\ aw' = AwIdle
    /\ UNCHANGED <<files, progress_log, stdout, state_cache, translations_cache, crashed>>
    /\ UNCHANGED <<jobVars, pureVars>>

\* ------------------------------------------------- the store's load calls

\* process_chunk's return None.
NoneVal == "<None>"

NotLoaded == [op |-> "none", st |-> "none", val |-> <<>>]

\* json.load(f) raises on a file that does not hold a complete JSON document.
JsonLoadRaises(file) == file.st = "partial"

\* load_state(): what it returns or raises, and the cache it leaves.
load_state(file, cache) ==
    IF cache.set THEN [st |-> "ok", val |-> cache.val, cache |-> cache]
    ELSE IF file.st = "absent" THEN [st |-> "ok", val |-> NoneVal, cache |-> cache]
    ELSE IF JsonLoadRaises(file) THEN [st |-> "raised", val |-> <<>>, cache |-> cache]
    ELSE [st |-> "ok", val |-> file.data, cache |-> [set |-> TRUE, val |-> file.data]]

\* load_translations(); cached is the dict the cache refers to.
load_translations(file, cache, cached) ==
    IF cache.ref # "none" THEN [st |-> "ok", val |-> cached, cache |-> cache]
    ELSE IF file.st = "absent" THEN [st |-> "ok", val |-> <<>>, cache |-> cache]
    ELSE IF JsonLoadRaises(file) THEN [st |-> "raised", val |-> <<>>, cache |-> cache]
    ELSE [st |-> "ok", val |-> file.data, cache |-> [ref |-> "value", val |-> file.data]]

\* load_chunks(): data['chunks'] and data['chapter_map'] raise KeyError on a
\* document without them.
load_chunks(file) ==
    IF file.st = "absent" THEN [st |-> "ok", val |-> <<NoneVal, NoneVal>>]
    ELSE IF JsonLoadRaises(file) THEN [st |-> "raised", val |-> <<>>]
    ELSE IF ~({"chunks", "chapter_map"} \subseteq DOMAIN file.data)
         THEN [st |-> "raised", val |-> <<>>]
    ELSE [st |-> "ok",
          val |-> << [j \in 1 .. Len(file.data.chunks) |->
                         <<file.data.chunks[j][1], file.data.chunks[j][2]>>],
                     [id \in DOMAIN file.data.chapter_map |->
                         <<file.data.chapter_map[id].item,
                           file.data.chapter_map[id].pos>>] >>]

\* The dict self._translations_cache refers to.
CachedTranslations ==
    IF translations_cache.ref = "local" THEN translations ELSE translations_cache.val

\* The call load_state().
LoadState ==
    /\ ~crashed
    /\ phase = "store"
    /\ aw.pc = "idle"
    /\ loaded' = [op |-> "load_state",
                  st |-> load_state(files["state_file"], state_cache).st,
                  val |-> load_state(files["state_file"], state_cache).val]
    /\ state_cache' = load_state(files["state_file"], state_cache).cache
    /\ UNCHANGED <<files, progress_log, stdout, translations_cache, aw, crashed>>
    /\ UNCHANGED <<content, limit, out, doc, extracted, re_translations, output,
                   transcribed>>
    /\ UNCHANGED jobVars

\* The call load_translations().
LoadTranslations ==
    /\ ~crashed
    /\ phase = "store"
    /\ aw.pc = "idle"
    /\ loaded' = [op |-> "load_translations",
                  st |-> load_translations(files["translations_file"],
                             translations_cache, CachedTranslations).st,
                  val |-> load_translations(files["translations_file"],
                              translations_cache, CachedTranslations).val]
    /\ translations_cache' = load_translations(files["translations_file"],
                                 translations_cache, CachedTranslations).cache
    /\ UNCHANGED <<files, progress_log, stdout, state_cache, aw, crashed>>
    /\ UNCHANGED <<content, limit, out, doc, extracted, re_translations, output,
                   transcribed>>
    /\ UNCHANGED jobVars

\* The call load_chunks().
LoadChunks ==
    /\ ~crashed
    /\ phase \in {"store", "epub"}
    /\ aw.pc = "idle"
    /\ loaded' = [op |-> "load_chunks",
                  st |-> load_chunks(files["chunks_file"]).st,
                  val |-> load_chunks(files["chunks_file"]).val]
    /\ UNCHANGED storeVars
    /\ UNCHANGED <<content, limit, out, doc, extracted, re_translations, output,
                   transcribed>>
    /\ UNCHANGED jobVars

\* The call clear_cache().
ClearCache ==
    /\ ~crashed
    /\ phase = "store"
    /\ aw.pc = "idle"
    /\ state_cache.set \/ translations_cache.ref # "none"
    /\ state_cache' = [set |-> FALSE, val |-> <<>>]
    /\ translations_cache' = [ref |-> "none", val |-> <<>>]
    /\ UNCHANGED <<files, progress_log, stdout, aw, crashed>>
    /\ UNCHANGED <<jobVars, pureVars>>

\* ------------------------------------------------------ TranslationManager

Units == 0 .. (MaxUnits - 1)

\* What a transform call can return as response.choices[0].message.content.
Texts == {"", "new"}

\* chunks[ii : ii + batch_size], as unit numbers.
BatchOf(ii) == {u \in 0 .. (n_chunks - 1) : ii <= u /\ u < ii + batch_size}

\* `if result:`: None and the empty string are false.
Truthy(r) == r # NoneVal /\ r # ""

\* The mutant of Backoff: a linear wait.
BackoffLinear(a) == 2 * a

\* asyncio.sleep(2 ** attempt)
Backoff(a) == 2 ^ a

\* The mutant of AllSettled: gather returns with the first result.
AnySettled(b) == \E u \in b : pc[u] = "returned"

\* asyncio.gather(*tasks) returns when every task of the batch has returned.
AllSettled(b) == \A u \in b : pc[u] = "returned"

\* A line that reports the units still to do.
RemainingLine(done, total) == [kind |-> "processed", a |-> total - done, b |-> total]

\* The lines process_chunk and process_batch pass to log_progress.
FailedLine(u) == [kind |-> "failed", a |-> u, b |-> max_retries]
ProcessedLine(done, total) == [kind |-> "processed", a |-> done, b |-> total]

\* for i in range(0, len(chunks), batch_size): the tasks of the next batch.
BatchStart ==
    /\ ~crashed
    /\ phase = "loop"
    /\ i < n_chunks
    /\ phase' = "gather"
    /\ pc' = [u \in Units |-> IF u \in BatchOf(i) THEN "ready" ELSE pc[u]]
    /\ UNCHANGED storeVars
    /\ UNCHANGED <<n_chunks, i, k, translations, attempt, result, calls, fails, slept,
                   returned, prior, nops>>
    /\ UNCHANGED pureVars

\* The task of unit u starts: attempt 0 calls the transform.
CallTransform(u) ==
    /\ ~crashed
    /\ phase = "gather"
    /\ pc[u] = "ready"
    /\ pc' = [pc EXCEPT ![u] = "calling"]
    /\ calls' = [calls EXCEPT ![u] = @ + 1]
    /\ UNCHANGED storeVars
    /\ UNCHANGED <<phase, n_chunks, i, k, translations, attempt, result, fails, slept,
                   returned, prior, nops>>
    /\ UNCHANGED pureVars

\* The awaited call returns: return response.choices[0].message.content.
TransformReturns(u, text) ==
    /\ ~crashed
    /\ phase = "gather"
    /\ pc[u] = "calling"
    /\ pc' = [pc EXCEPT ![u] = "returned"]
    /\ result' = [result EXCEPT ![u] = text]
    /\ UNCHANGED storeVars
    /\ UNCHANGED <<phase, n_chunks, i, k, translations, attempt, calls, fails, slept,
                   returned, prior, nops>>
    /\ UNCHANGED pureVars

\* The awaited call raises: the last attempt logs and returns None, an
\* earlier one sleeps.
TransformRaises(u, ok) ==
    /\ ~crashed
    /\ phase = "gather"
    /\ pc[u] = "calling"
    /\ fails' = [fails EXCEPT ![u] = @ + 1]
    /\ IF attempt[u] = max_retries - 1
       THEN /\ progress_log' = log_progress(progress_log, FailedLine(u), ok)
            /\ stdout' = log_fallback(stdout, FailedLine(u), ok)
            /\ phase' = LogReturns(phase, ok)
            /\ pc' = [pc EXCEPT ![u] = "returned"]
            /\ result' = [result EXCEPT ![u] = NoneVal]
            /\ slept' = slept
       ELSE /\ pc' = [pc EXCEPT ![u] = "sleeping"]
            /\ slept' = [slept EXCEPT ![u] = Append(@, Backoff(attempt[u]))]
            /\ UNCHANGED <<progress_log, stdout, result, phase>>
    /\ UNCHANGED <<files, state_cache, translations_cache, aw, crashed>>
    /\ UNCHANGED <<n_chunks, i, k, translations, attempt, calls, returned, prior, nops>>
    /\ UNCHANGED pureVars

\* The sleep is over: the for loop takes the next attempt and calls again.
WakeUp(u) ==
    /\ ~crashed
    /\ phase = "gather"
    /\ pc[u] = "sleeping"
    /\ attempt' = [attempt EXCEPT ![u] = @ + 1]
    /\ pc' = [pc EXCEPT ![u] = "calling"]
    /\ calls' = [calls EXCEPT ![u] = @ + 1]
    /\ UNCHANGED storeVars
    /\ UNCHANGED <<phase, n_chunks, i, k, translations, result, fails, slept, returned,
                   prior, nops>>
    /\ UNCHANGED pureVars

\* results = await asyncio.gather(*tasks)
GatherDone ==
    /\ ~crashed
    /\ phase = "gather"
    /\ AllSettled(BatchOf(i))
    /\ phase' = "zip"
    /\ k' = 0
    /\ UNCHANGED storeVars
    /\ UNCHANGED <<n_chunks, i, translations, pc, attempt, result, calls, fails, slept,
                   returned, prior, nops>>
    /\ UNCHANGED pureVars

\* The results of the batch in the opposite order of its tasks.
ResultReversed(ii, kk) == result[ii + (Cardinality(BatchOf(ii)) - 1 - kk)]

\* results[kk] of results = await asyncio.gather(*tasks): what the kk-th task
\* of the batch returned, whenever it completed.
ResultAt(ii, kk) == result[ii + kk]

\* One round of `for (chunk_id, _), result in zip(batch, results)`: a true
\* result is stored and save_translations is called.
ZipStep ==
    /\ ~crashed
    /\ phase = "zip"
    /\ k < Cardinality(BatchOf(i))
    /\ IF Truthy(ResultAt(i, k))
       THEN /\ translations' = DictSet(translations, i + k, ResultAt(i, k))
            /\ aw' = AwCall("translations_file", translations', "save_translations")
            /\ phase' = "saving"
            /\ k' = k
       ELSE /\ k' = k + 1
            /\ UNCHANGED <<translations, aw, phase>>
    /\ UNCHANGED <<files, progress_log, stdout, state_cache, translations_cache, crashed>>
    /\ UNCHANGED <<n_chunks, i, pc, attempt, result, calls, fails, slept, returned, prior,
                   nops>>
    /\ UNCHANGED pureVars

\* log_progress(f"Processed {len(translations)}/{len(chunks)} chunks"), and
\* the batch loop steps.
LogBatch(ok) ==
    /\ ~crashed
    /\ phase = "zip"
    /\ k = Cardinality(BatchOf(i))
    /\ progress_log' = log_progress(progress_log,
                           ProcessedLine(Cardinality(DOMAIN translations), n_chunks), ok)
    /\ stdout' = log_fallback(stdout,
                           ProcessedLine(Cardinality(DOMAIN translations), n_chunks), ok)
    /\ i' = i + batch_size
    /\ phase' = LogReturns("loop", ok)
    /\ UNCHANGED <<files, state_cache, translations_cache, aw, crashed>>
    /\ UNCHANGED <<n_chunks, k, translations, pc, attempt, result, calls, fails, slept,
                   returned, prior, nops>>
    /\ UNCHANGED pureVars

\* return translations
Return ==
    /\ ~crashed
    /\ phase = "loop"
    /\ i >= n_chunks
    /\ phase' = "done"
    /\ returned' = [set |-> TRUE, val |-> translations]
    /\ UNCHANGED storeVars
    /\ UNCHANGED <<n_chunks, i, k, translations, pc, attempt, result, calls, fails, slept,
                   prior, nops>>
    /\ UNCHANGED pureVars

\* ----------------------------------------------------------- EPubProcessor

\* A string is a sequence of tokens: the closing tag "</p>", four characters
\* long, and single characters: " " (whitespace), "." , "B" (a capital
\* letter) and "a" (any other character; it is part of no abbreviation, is no
\* digit and no part of a closing tag).
Marker == "</p>"
Alphabet == {"a", "B", ".", " ", Marker}

\* len(s)
RECURSIVE PyLen(_)
PyLen(s) == IF s = <<>> THEN 0
            ELSE (IF Head(s) = Marker THEN 4 ELSE 1) + PyLen(Tail(s))

\* The number of closing tags in a text.
RECURSIVE Markers(_)
Markers(s) == IF s = <<>> THEN 0
              ELSE (IF Head(s) = Marker THEN 1 ELSE 0) + Markers(Tail(s))

\* ''.join(list)
RECURSIVE Concat(_)
Concat(list) == IF list = <<>> THEN <<>> ELSE Head(list) \o Concat(Tail(list))

\* s.strip()
RECURSIVE LStrip(_)
LStrip(s) == IF s # <<>> /\ Head(s) = " " THEN LStrip(Tail(s)) ELSE s
RECURSIVE RStrip(_)
RStrip(s) == IF s # <<>> /\ s[Len(s)] = " " THEN RStrip(SubSeq(s, 1, Len(s) - 1)) ELSE s
Strip(s) == RStrip(LStrip(s))

\* content.split('</p>'): the pieces between the tags, empty ones included.
RECURSIVE SplitOnMarker(_, _)
SplitOnMarker(s, piece) ==
    IF s = <<>> THEN <<piece>>
    ELSE IF Head(s) = Marker THEN <<piece>> \o SplitOnMarker(Tail(s), <<>>)
    ELSE SplitOnMarker(Tail(s), Append(piece, Head(s)))

\* [p.strip() + '</p>' for p in paragraphs if p.strip()]
RECURSIVE Paragraphs(_)
Paragraphs(pieces) ==
    IF pieces = <<>> THEN <<>>
    ELSE (IF Strip(Head(pieces)) # <<>> THEN <<Strip(Head(pieces)) \o <<Marker>>>> ELSE <<>>)
         \o Paragraphs(Tail(pieces))

\* The split pattern of _split_sentences, '\. +(?=[A-Z])' where no abbreviation
\* or number precedes: position j holds a period that is followed by one or
\* more spaces and then a capital letter; e is the capital's position.
BoundaryEnd(s, j) ==
    IF s[j] = "." /\ \E e \in (j + 2) .. Len(s) :
                        s[e] = "B" /\ \A x \in (j + 1) .. (e - 1) : s[x] = " "
    THEN CHOOSE e \in (j + 2) .. Len(s) : s[e] = "B" /\ \A x \in (j + 1) .. (e - 1) : s[x] = " "
    ELSE 0

FirstBoundary(s) ==
    IF \E j \in 1 .. Len(s) : BoundaryEnd(s, j) # 0
    THEN CHOOSE j \in 1 .. Len(s) :
            BoundaryEnd(s, j) # 0 /\ \A x \in 1 .. (j - 1) : BoundaryEnd(s, x) = 0
    ELSE 0

\* The sentences the pattern cuts a text into, each but the last with its
\* period put back: [s + '.' for s in sentences[:-1]] + [sentences[-1]].
RECURSIVE SentencePieces(_)
SentencePieces(s) ==
    IF FirstBoundary(s) = 0 THEN <<s>>
    ELSE <<SubSeq(s, 1, FirstBoundary(s))>>
         \o SentencePieces(SubSeq(s, BoundaryEnd(s, FirstBoundary(s)), Len(s)))

\* _split_sentences(text).  The pattern puts alternatives of different widths
\* ((?:Mr|Mrs|...)\. and \d+) in a look-behind; Python's re compiles only
\* look-behinds of one fixed width, so re.split raises re.error ("look-behind
\* requires fixed-width pattern") on every call, whatever the text.
\* The text is never looked at.
_split_sentences(text) == [raised |-> TRUE, sentences |-> <<>>]

\* for sentence in sentences: ... (the inner loop of split_content), from
\* sentence idx on; the chunks with the last temp_chunk flushed.
RECURSIVE SentenceLoop(_, _, _, _, _)
SentenceLoop(sentences, idx, chunks, temp_chunk, max_chunk_size) ==
    IF idx > Len(sentences)
    THEN (IF temp_chunk # <<>> THEN Append(chunks, temp_chunk) ELSE chunks)
    ELSE IF PyLen(temp_chunk) + PyLen(sentences[idx]) > max_chunk_size
         THEN SentenceLoop(sentences, idx + 1,
                           IF temp_chunk # <<>> THEN Append(chunks, temp_chunk) ELSE chunks,
                           sentences[idx], max_chunk_size)
         ELSE SentenceLoop(sentences, idx + 1, chunks,
                           (IF temp_chunk # <<>> THEN Append(temp_chunk, " ") ELSE <<>>)
                               \o sentences[idx],
                           max_chunk_size)

\* current_chunk += ' ' if current_chunk else ''; current_chunk += paragraph
JoinParagraph(current_chunk, paragraph) ==
    (IF current_chunk # <<>> THEN Append(current_chunk, " ") ELSE <<>>) \o paragraph

\* for paragraph in paragraphs: ... (the outer loop of split_content), from
\* paragraph idx on, and the final flush of current_chunk.
RECURSIVE ParagraphLoop(_, _, _, _, _)
ParagraphLoop(paragraphs, idx, chunks, current_chunk, max_chunk_size) ==
    IF idx > Len(paragraphs)
    THEN [st |-> "ok",
          chunks |-> IF current_chunk # <<>> THEN Append(chunks, current_chunk) ELSE chunks]
    ELSE IF PyLen(current_chunk) + PyLen(paragraphs[idx]) > max_chunk_size
         THEN IF current_chunk # <<>>
              THEN ParagraphLoop(paragraphs, idx + 1, Append(chunks, current_chunk),
                                 paragraphs[idx], max_chunk_size)
              ELSE IF _split_sentences(paragraphs[idx]).raised
                   THEN [st |-> "raised", chunks |-> <<>>]
                   ELSE ParagraphLoop(paragraphs, idx + 1,
                                      SentenceLoop(_split_sentences(paragraphs[idx]).sentences,
                                                   1, chunks, <<>>, max_chunk_size),
                                      <<>>, max_chunk_size)
         ELSE ParagraphLoop(paragraphs, idx + 1, chunks,
                            JoinParagraph(current_chunk, paragraphs[idx]), max_chunk_size)

\* split_content(content, max_chunk_size): the chunks, or the exception.
split_content(c, max_chunk_size) ==
    ParagraphLoop(Paragraphs(SplitOnMarker(c, <<>>)), 1, <<>>, <<>>, max_chunk_size)

\* The contents and limits split_content is tried on.
RECURSIVE Strings(_)
Strings(n) == IF n = 0 THEN {<<>>}
              ELSE Strings(n - 1) \cup
                   {Append(s, t) : s \in {x \in Strings(n - 1) : Len(x) = n - 1},
                                   t \in Alphabet}

\* The call split_content(content, limit).
Split ==
    /\ phase = "split"
    /\ out.st = "none"
    /\ out' = [st |-> split_content(content, limit).st,
               chunks |-> split_content(content, limit).chunks]
    /\ UNCHANGED <<content, limit, doc, extracted, re_translations, output, transcribed, loaded>>
    /\ UNCHANGED <<storeVars, jobVars>>

\* item.filename.endswith(('.html', '.xhtml'))
IsHtml(filename) == filename \in {"a.html", "b.xhtml"}

\* The counter is left as it is.
SameChunkCounter(c) == c

\* chunk_counter += 1
NextChunkCounter(c) == c + 1

\* Positions counted from 1.
EnumerateFromOne(idx) == idx

\* enumerate(text_chunks): the pos of the idx-th chunk (idx from 1).
EnumeratePos(idx) == idx - 1

\* for pos, chunk in enumerate(text_chunks): ... (the inner loop of
\* extract_chunks), from chunk idx on.
RECURSIVE ExtractChunkLoop(_, _, _, _)
ExtractChunkLoop(filename, text_chunks, idx, acc) ==
    IF idx > Len(text_chunks) THEN acc
    ELSE ExtractChunkLoop(filename, text_chunks, idx + 1,
             [chunks |-> Append(acc.chunks, <<acc.chunk_counter, text_chunks[idx]>>),
              chapter_map |-> DictSet(acc.chapter_map, acc.chunk_counter,
                                      <<filename, EnumeratePos(idx)>>),
              chunk_counter |-> NextChunkCounter(acc.chunk_counter)])

\* for html_file in html_files: ... (the outer loop of extract_chunks), from
\* member idx on.
RECURSIVE ExtractLoop(_, _, _)
ExtractLoop(members, idx, acc) ==
    IF idx > Len(members)
    THEN [st |-> "ok", chunks |-> acc.chunks, chapter_map |-> acc.chapter_map]
    ELSE IF ~IsHtml(members[idx].filename)
         THEN ExtractLoop(members, idx + 1, acc)
         ELSE IF split_content(members[idx].content, DefaultMaxChunkSize).st = "raised"
              THEN [st |-> "raised", chunks |-> <<>>, chapter_map |-> <<>>]
              ELSE ExtractLoop(members, idx + 1,
                       ExtractChunkLoop(members[idx].filename,
                           split_content(members[idx].content, DefaultMaxChunkSize).chunks,
                           1, acc))

\* extract_chunks() on the members of the input file.
extract_chunks(members) ==
    ExtractLoop(members, 1, [chunks |-> <<>>, chapter_map |-> <<>>, chunk_counter |-> 0])

\* chunks.index(chunk): the first position, from 0, of an equal chunk.
ListIndex(chunks, chunk) ==
    (CHOOSE j \in 1 .. Len(chunks) :
        chunks[j] = chunk /\ \A x \in 1 .. (j - 1) : chunks[x] # chunk) - 1

\* [k for k, v in chapter_map.items() if v[0] == item.filename and v[1] == pos]
ChunkIdsAt(chapter_map, filename, pos) ==
    {id \in DOMAIN chapter_map : chapter_map[id][1] = filename /\ chapter_map[id][2] = pos}

\* The first of a list of ids; the map's keys are in the order of their ids.
FirstId(ids) == CHOOSE id \in ids : \A x \in ids : id <= x

\* translations.get(key, default)
DictGet(d, key, default) == IF key \in DOMAIN d THEN d[key] ELSE default

\* The body of `for chunk in chunks:` in reassemble: what is appended to
\* translated_chunks for the chunk at position idx (from 1).
TranslatedChunk(filename, chunks, idx, trans, chapter_map) ==
    IF ChunkIdsAt(chapter_map, filename, ListIndex(chunks, chunks[idx])) # {}
    THEN DictGet(trans,
                 FirstId(ChunkIdsAt(chapter_map, filename, ListIndex(chunks, chunks[idx]))),
                 chunks[idx])
    ELSE chunks[idx]

\* translated_chunks for the chunks of one member.
TranslatedChunks(filename, chunks, trans, chapter_map) ==
    [idx \in 1 .. Len(chunks) |-> TranslatedChunk(filename, chunks, idx, trans, chapter_map)]

\* for item in zip_ref.infolist(): ... (the loop of reassemble), from member
\* idx on; written is what out_zip holds so far.
RECURSIVE ReassembleLoop(_, _, _, _, _)
ReassembleLoop(members, idx, trans, chapter_map, written) ==
    IF idx > Len(members) THEN [st |-> "ok", members |-> written]
    ELSE IF ~IsHtml(members[idx].filename)
         THEN ReassembleLoop(members, idx + 1, trans, chapter_map,
                             Append(written, members[idx]))
         ELSE IF split_content(members[idx].content, DefaultMaxChunkSize).st = "raised"
              THEN [st |-> "raised", members |-> written]
              ELSE ReassembleLoop(members, idx + 1, trans, chapter_map,
                       Append(written,
                           [filename |-> members[idx].filename,
                            content |-> Concat(TranslatedChunks(members[idx].filename,
                                split_content(members[idx].content, DefaultMaxChunkSize).chunks,
                                trans, chapter_map))]))

\* reassemble(translations, chapter_map) on the members of the input file.
reassemble(members, trans, chapter_map) ==
    ReassembleLoop(members, 1, trans, chapter_map, <<>>)

\* The documents tried: up to MaxMembers members with different names; an
\* HTML member holds up to MaxParagraphs short paragraphs, or one paragraph
\* longer than the chunk size, or a paragraph and a tail; the image holds bytes.
ParagraphTexts == {<<"a", Marker>>, <<"B", Marker>>}
LongContent == [j \in 1 .. (DefaultMaxChunkSize + 1) |->
                   IF j = DefaultMaxChunkSize + 1 THEN Marker ELSE "a"]
RECURSIVE ParagraphLists(_)
ParagraphLists(n) ==
    IF n = 0 THEN {<<>>}
    ELSE ParagraphLists(n - 1) \cup
         {s \o t : s \in {x \in ParagraphLists(n - 1) : Markers(x) = n - 1},
                   t \in ParagraphTexts}
\* One paragraph followed by text that no '</p>' closes (what follows the
\* last paragraph of a page, as '</body>' does).
TailContents == {p \o <<"B">> : p \in ParagraphTexts}
HtmlContents == ParagraphLists(MaxParagraphs) \cup {LongContent} \cup TailContents
FileNames == {"a.html", "b.xhtml", "c.png"}
ContentsOf(filename) == IF IsHtml(filename) THEN HtmlContents ELSE {<<"a", "B">>}
RECURSIVE Docs(_)
Docs(n) ==
    IF n = 0 THEN {<<>>}
    ELSE Docs(n - 1) \cup
         {Append(d, [filename |-> f, content |-> c]) :
             d \in {x \in Docs(n - 1) : Len(x) = n - 1},
             f \in FileNames, c \in HtmlContents \cup {<<"a", "B">>}}

\* The name of every member of a document is its own, and its content is one
\* a member of that name can hold.
WellFormed(d) ==
    /\ \A x, y \in 1 .. Len(d) : x # y => d[x].filename # d[y].filename
    /\ \A x \in 1 .. Len(d) : d[x].content \in ContentsOf(d[x].filename)

\* The translation a transform returns for unit id.
TranslationOf(id) == <<"t" \o ToString(id)>>

\* The call extract_chunks() on an EPUB input.
Extract ==
    /\ phase = "epub"
    /\ extracted.st = "none"
    /\ transcribed.st = "none"
    /\ extracted' = extract_chunks(doc)
    /\ UNCHANGED <<content, limit, out, doc, re_translations, output, transcribed, loaded>>
    /\ UNCHANGED <<storeVars, jobVars>>

\* The call reassemble(translations, chapter_map) with the chapter map of the
\* extraction and the translations of some of its units.
Reassemble(ids) ==
    /\ phase = "epub"
    /\ extracted.st = "ok"
    /\ output.st = "none"
    /\ re_translations' = [id \in ids |-> TranslationOf(id)]
    /\ output' = reassemble(doc, re_translations', extracted.chapter_map)
    /\ UNCHANGED <<content, limit, out, doc, extracted, transcribed, loaded>>
    /\ UNCHANGED <<storeVars, jobVars>>

\* The documents the input file can have become when a job is resumed: the
\* members of d, one of them with another content.
Edited(d) ==
    {[d EXCEPT ![j].content = c] :
        j \in 1 .. Len(d), c \in HtmlContents \cup {<<"a", "B">>}}

\* The call reassemble(translations, chapter_map) of a resumed job: the chapter
\* map is the one of the extraction, the input file is now d.
ReassembleResumed(d, ids) ==
    /\ phase = "epub"
    /\ extracted.st = "ok"
    /\ output.st = "none"
    /\ d \in Edited(doc)
    /\ WellFormed(d)
    /\ d # doc
    /\ doc' = d
    /\ re_translations' = [id \in ids |-> TranslationOf(id)]
    /\ output' = reassemble(d, re_translations', extracted.chapter_map)
    /\ UNCHANGED <<content, limit, out, extracted, transcribed, loaded>>
    /\ UNCHANGED <<storeVars, jobVars>>

\* ---------------------------------------------------------------- PDFHandler

\* f"page_{page_num}.html"
PageItem(page_num) == "page_" \o ToString(page_num) \o ".html"

\* for page_num, image_path in enumerate(sorted(output_dir.glob("*.png"))):
\* pages[j] is the sanitized HTML transcribed from the j-th image; the call
\* to the model raises at image `failing` (0: at none).
transcribe_pdf(pages, failing) ==
    IF failing # 0
    THEN [st |-> "raised", chunks |-> <<>>, chapter_map |-> <<>>]
    ELSE [st |-> "ok",
          chunks |-> [j \in 1 .. Len(pages) |-> <<EnumeratePos(j), pages[j]>>],
          chapter_map |-> [page_num \in {EnumeratePos(j) : j \in 1 .. Len(pages)} |->
                              [item |-> PageItem(page_num), pos |-> 0]]]

\* The transcriptions tried: up to MaxPages pages.
RECURSIVE PageLists(_)
PageLists(n) ==
    IF n = 0 THEN {<<>>}
    ELSE PageLists(n - 1) \cup
         {Append(s, t) : s \in {x \in PageLists(n - 1) : Len(x) = n - 1},
                         t \in ParagraphTexts}

\* The call transcribe_pdf(input_pdf_path) on a PDF input.
Transcribe(pages, failing) ==
    /\ phase = "epub"
    /\ extracted.st = "none"
    /\ transcribed.st = "none"
    /\ failing \in 0 .. Len(pages)
    /\ transcribed' = transcribe_pdf(pages, failing)
    /\ UNCHANGED <<content, limit, out, doc, extracted, re_translations, output, loaded>>
    /\ UNCHANGED <<storeVars, jobVars>>

\* The call save_chunks(chunks, chapter_map) with what extract_chunks returned.
SaveExtracted ==
    /\ ~crashed
    /\ phase = "epub"
    /\ extracted.st = "ok"
    /\ aw.pc = "idle"
    /\ files["chunks_file"].st = "absent"
    /\ aw' = AwCall("chunks_file", ChunksData(extracted.chunks, extracted.chapter_map),
                    "save_chunks")
    /\ UNCHANGED <<files, progress_log, stdout, state_cache, translations_cache, crashed>>
    /\ UNCHANGED <<jobVars, pureVars>>

\* The call save_chunks(all_chunks, chapter_map) with what transcribe_pdf
\* returned.
SaveTranscribed ==
    /\ ~crashed
    /\ phase = "epub"
    /\ transcribed.st = "ok"
    /\ aw.pc = "idle"
    /\ files["chunks_file"].st = "absent"
    /\ aw' = AwCall("chunks_file",
                    ChunksDataFromDicts(transcribed.chunks, transcribed.chapter_map),
                    "save_chunks")
    /\ UNCHANGED <<files, progress_log, stdout, state_cache, translations_cache, crashed>>
    /\ UNCHANGED <<jobVars, pureVars>>

\* The call load_chunks() once save_chunks has written the chunks file.
LoadSavedChunks ==
    /\ files["chunks_file"].st = "full"
    /\ LoadChunks

\* ---------------------------------------------------------- specifications

NoFiles == [p \in Paths |-> Absent]

\* The translations files a run can start from: none, or one an earlier run
\* saved (save_translations is only called with a stored, non-empty text).
PriorFiles(n) ==
    {Absent} \cup
    {Full([u \in S |-> "old"]) : S \in (SUBSET (0 .. (n - 1))) \ {{}}}

EPubIdle ==
    /\ doc = <<>>
    /\ extracted = [st |-> "none", chunks |-> <<>>, chapter_map |-> <<>>]
    /\ re_translations = <<>>
    /\ output = [st |-> "none", members |-> <<>>]
    /\ transcribed = [st |-> "none", chunks |-> <<>>, chapter_map |-> <<>>]
    /\ loaded = NotLoaded

PureIdle ==
    /\ content = <<>>
    /\ limit = 0
    /\ out = [st |-> "none", chunks |-> <<>>]
    /\ EPubIdle

\* A StateManager just constructed on the job directory, and process_batch
\* called with n_chunks units: translations = {}.
Init ==
    /\ n_chunks \in 1 .. MaxUnits
    /\ prior \in PriorFiles(n_chunks)
    /\ files = [NoFiles EXCEPT !["translations_file"] = prior]
    /\ progress_log = <<>>
    /\ stdout = <<>>
    /\ state_cache = [set |-> FALSE, val |-> <<>>]
    /\ translations_cache = [ref |-> "none", val |-> <<>>]
    /\ aw = AwIdle
    /\ crashed = FALSE
    /\ phase = "loop"
    /\ i = 0
    /\ k = 0
    /\ translations = <<>>
    /\ pc = [u \in Units |-> "none"]
    /\ attempt = [u \in Units |-> 0]
    /\ result = [u \in Units |-> NoneVal]
    /\ calls = [u \in Units |-> 0]
    /\ fails = [u \in Units |-> 0]
    /\ slept = [u \in Units |-> <<>>]
    /\ returned = [set |-> FALSE, val |-> <<>>]
    /\ nops = 0
    /\ PureIdle

Next ==
    \/ BatchStart
    \/ \E u \in Units : CallTransform(u)
    \/ \E u \in Units, text \in Texts : TransformReturns(u, text)
    \/ \E u \in Units : TransformRaises(u, TRUE)
    \/ \E u \in Units : WakeUp(u)
    \/ GatherDone
    \/ ZipStep
    \/ AwOpen
    \/ AwDump
    \/ AwReplace
    \/ AwFinally
    \/ SaveTranslationsReturn
    \/ LogBatch(TRUE)
    \/ Return
    \/ Crash

Spec == Init /\ [][Next]_vars

\* The store on its own: a caller makes up to MaxOps save calls.
InitStore ==
    /\ n_chunks = 0
    /\ prior = Absent
    /\ files = NoFiles
    /\ progress_log = <<>>
    /\ stdout = <<>>
    /\ state_cache = [set |-> FALSE, val |-> <<>>]
    /\ translations_cache = [ref |-> "none", val |-> <<>>]
    /\ aw = AwIdle
    /\ crashed = FALSE
    /\ phase = "store"
    /\ i = 0
    /\ k = 0
    /\ translations = <<>>
    /\ pc = [u \in Units |-> "none"]
    /\ attempt = [u \in Units |-> 0]
    /\ result = [u \in Units |-> NoneVal]
    /\ calls = [u \in Units |-> 0]
    /\ fails = [u \in Units |-> 0]
    /\ slept = [u \in Units |-> <<>>]
    /\ returned = [set |-> FALSE, val |-> <<>>]
    /\ nops = 0
    /\ PureIdle

NextStore ==
    \/ \E t \in StoreTotals, c \in StoreCompleted : CallSaveState(t, c)
    \/ \E m \in StoreMaps : CallSaveTranslations(m)
    \/ \E c \in StoreChunkLists : CallSaveChunks(c)
    \/ AwOpen
    \/ AwDump
    \/ AwReplace
    \/ AwFinally
    \/ SaveStateReturn
    \/ SaveTranslationsReturn
    \/ SaveChunksReturn
    \/ Crash

SpecStore == InitStore /\ [][NextStore]_vars

\* process_batch on a disk whose writes can fail.
NextWriteFaults ==
    \/ Next
    \/ AwRaise
    \/ SaveRaises

SpecWriteFaults == Init /\ [][NextWriteFaults]_vars

\* process_batch with a progress log whose appends can fail.
NextLogFaults ==
    \/ Next
    \/ \E u \in Units : TransformRaises(u, FALSE)
    \/ LogBatch(FALSE)

SpecLogFaults == Init /\ [][NextLogFaults]_vars

\* The files a StateManager can find in the job directory: none, one an
\* earlier run saved, or one that is not a complete document of its kind.
PriorStateFiles == {Absent, Partial, Full(StateRecord(2, 1, 0))}
PriorTranslationsFiles == {Absent, Partial, Full((0 :> "old"))}
PriorChunksFiles ==
    {Absent, Partial, Full(<<>>),
     Full(ChunksData(<< <<0, "a">> >>, (0 :> <<"ch1.html", 0>>)))}

\* A StateManager just constructed on a job directory left by an earlier run;
\* the caller makes load calls.
InitLoad ==
    /\ n_chunks = 0
    /\ prior = Absent
    /\ files \in {[NoFiles EXCEPT !["state_file"] = s, !["translations_file"] = t,
                                   !["chunks_file"] = c] :
                      s \in PriorStateFiles, t \in PriorTranslationsFiles,
                      c \in PriorChunksFiles}
    /\ progress_log = <<>>
    /\ stdout = <<>>
    /\ state_cache = [set |-> FALSE, val |-> <<>>]
    /\ translations_cache = [ref |-> "none", val |-> <<>>]
    /\ aw = AwIdle
    /\ crashed = FALSE
    /\ phase = "store"
    /\ i = 0
    /\ k = 0
    /\ translations = <<>>
    /\ pc = [u \in Units |-> "none"]
    /\ attempt = [u \in Units |-> 0]
    /\ result = [u \in Units |-> NoneVal]
    /\ calls = [u \in Units |-> 0]
    /\ fails = [u \in Units |-> 0]
    /\ slept = [u \in Units |-> <<>>]
    /\ returned = [set |-> FALSE, val |-> <<>>]
    /\ nops = 0
    /\ PureIdle

NextLoad ==
    \/ LoadState
    \/ LoadTranslations
    \/ LoadChunks
    \/ ClearCache

SpecLoad == InitLoad /\ [][NextLoad]_vars

\* The store on its own: a caller makes save calls and load calls.
NextStoreLoad ==
    \/ NextStore
    \/ NextLoad

SpecStoreLoad == InitStore /\ [][NextStoreLoad]_vars

\* split_content on its own: one call on a content and a limit.
InitSplit ==
    /\ n_chunks = 0
    /\ prior = Absent
    /\ files = NoFiles
    /\ progress_log = <<>>
    /\ stdout = <<>>
    /\ state_cache = [set |-> FALSE, val |-> <<>>]
    /\ translations_cache = [ref |-> "none", val |-> <<>>]
    /\ aw = AwIdle
    /\ crashed = FALSE
    /\ phase = "split"
    /\ i = 0
    /\ k = 0
    /\ translations = <<>>
    /\ pc = [u \in Units |-> "none"]
    /\ attempt = [u \in Units |-> 0]
    /\ result = [u \in Units |-> NoneVal]
    /\ calls = [u \in Units |-> 0]
    /\ fails = [u \in Units |-> 0]
    /\ slept = [u \in Units |-> <<>>]
    /\ returned = [set |-> FALSE, val |-> <<>>]
    /\ nops = 0
    /\ content \in Strings(MaxContentLen)
    /\ limit \in 1 .. MaxLimit
    /\ out = [st |-> "none", chunks |-> <<>>]
    /\ EPubIdle

NextSplit == Split

SpecSplit == InitSplit /\ [][NextSplit]_vars

\* extract_chunks and reassemble on a document.
InitEPub ==
    /\ n_chunks = 0
    /\ prior = Absent
    /\ files = NoFiles
    /\ progress_log = <<>>
    /\ stdout = <<>>
    /\ state_cache = [set |-> FALSE, val |-> <<>>]
    /\ translations_cache = [ref |-> "none", val |-> <<>>]
    /\ aw = AwIdle
    /\ crashed = FALSE
    /\ phase = "epub"
    /\ i = 0
    /\ k = 0
    /\ translations = <<>>
    /\ pc = [u \in Units |-> "none"]
    /\ attempt = [u \in Units |-> 0]
    /\ result = [u \in Units |-> NoneVal]
    /\ calls = [u \in Units |-> 0]
    /\ fails = [u \in Units |-> 0]
    /\ slept = [u \in Units |-> <<>>]
    /\ returned = [set |-> FALSE, val |-> <<>>]
    /\ nops = 0
    /\ content = <<>>
    /\ limit = 0
    /\ out = [st |-> "none", chunks |-> <<>>]
    /\ doc \in {d \in Docs(MaxMembers) : WellFormed(d)}
    /\ extracted = [st |-> "none", chunks |-> <<>>, chapter_map |-> <<>>]
    /\ re_translations = <<>>
    /\ output = [st |-> "none", members |-> <<>>]
    /\ transcribed = [st |-> "none", chunks |-> <<>>, chapter_map |-> <<>>]
    /\ loaded = NotLoaded

NextEPub ==
    \/ Extract
    \/ \E pages \in PageLists(MaxPages), failing \in 0 .. MaxPages :
           Transcribe(pages, failing)
    \/ \E ids \in SUBSET (DOMAIN extracted.chapter_map) : Reassemble(ids)

SpecEPub == InitEPub /\ [][NextEPub]_vars

\* extract_chunks, and reassemble when the job is resumed on an edited input.
NextEPubResumed ==
    \/ Extract
    \/ \E d \in Edited(doc), ids \in SUBSET (DOMAIN extracted.chapter_map) :
           ReassembleResumed(d, ids)

SpecEPubResumed == InitEPub /\ [][NextEPubResumed]_vars

\* An extraction, save_chunks on what it returned, then load_chunks.
NextRoundTrip ==
    \/ Extract
    \/ \E pages \in PageLists(MaxPages), failing \in 0 .. MaxPages :
           Transcribe(pages, failing)
    \/ SaveExtracted
    \/ SaveTranscribed
    \/ AwOpen
    \/ AwDump
    \/ AwReplace
    \/ AwFinally
    \/ SaveChunksReturn
    \/ LoadSavedChunks

SpecRoundTrip == InitEPub /\ [][NextRoundTrip]_vars

\* ------------------------------------------------------------------ claims

TranslationsFile == files["translations_file"]

\* The units of the list, and those whose transform call returned a text.
Listed == 0 .. (n_chunks - 1)
Succeeded == {u \in Listed : result[u] # NoneVal}

\* C1: a run started on a translations file that holds K < N of the N listed
\* ids makes no transform call for any of the K ids, and ends with a returned
\* and a persisted map that still hold those K entries.
C1_Resumability ==
    (prior.st = "full" /\ Cardinality(DOMAIN prior.data) < n_chunks) =>
        /\ \A u \in DOMAIN prior.data : calls[u] = 0
        /\ phase = "done" =>
              /\ \A u \in DOMAIN prior.data :
                    /\ u \in DOMAIN returned.val
                    /\ returned.val[u] = prior.data[u]
              /\ TranslationsFile.st = "full"
              /\ \A u \in DOMAIN prior.data :
                    /\ u \in DOMAIN TranslationsFile.data
                    /\ TranslationsFile.data[u] = prior.data[u]

\* C2: a target file never holds a partial document; it changes only by the
\* rename of the completely written temporary file, to exactly the data being
\* saved; a crash, and everything after it, leaves every file as it is.
C2_Atomicity ==
    /\ [](\A p \in TargetPaths : files[p].st # "partial")
    /\ [][\A p \in TargetPaths :
            files'[p] # files[p] =>
                /\ ~crashed /\ ~crashed'
                /\ aw.pc = "written" /\ aw.path = p
                /\ files'[p] = Full(aw.data)]_vars
    /\ [][crashed' => files' = files]_vars

\* C2 witness: the process died between the write of the temporary file and
\* the rename, and the target still holds its earlier complete content.
C2_Witness ==
    /\ crashed
    /\ aw.pc = "written"
    /\ files[temp_path(aw.path)] = Full(aw.data)
    /\ files[aw.path].st = "full"
    /\ files[aw.path].data # aw.data

\* C3: when a batch's progress line has been appended, the translations file
\* holds the accumulated map (saved after the batch, also when every unit of
\* the batch failed).
C3_CheckpointPerBatch ==
    (phase = "loop" /\ i > 0) => TranslationsFile = Full(translations)

\* C4: a unit gets at most max_retries (3) transform calls, one at a time, a
\* further one only after a failed one; after failed attempt k (k = 0, 1) it
\* sleeps 2^k; after the third failure it neither calls nor sleeps again and
\* the failure is in the progress log.
C4_PerUnitRetry ==
    \A u \in Units :
        /\ calls[u] <= 3
        /\ slept[u] = [j \in 1 .. Min(fails[u], 2) |-> 2 ^ (j - 1)]
        /\ pc[u] \in {"none", "ready"} => calls[u] = 0 /\ fails[u] = 0
        /\ pc[u] = "calling" => calls[u] = fails[u] + 1
        /\ pc[u] = "sleeping" => calls[u] = fails[u] /\ fails[u] \in {1, 2}
        /\ (pc[u] = "returned" /\ result[u] # NoneVal) => calls[u] = fails[u] + 1
        /\ (pc[u] = "returned" /\ result[u] = NoneVal) =>
              /\ calls[u] = 3 /\ fails[u] = 3
              /\ slept[u] = <<1, 2>>
              /\ \E j \in 1 .. Len(progress_log) :
                    progress_log[j] = [kind |-> "failed", a |-> u, b |-> 3]

\* C4 witness: a unit failed three times and was given up.
C4_Witness ==
    \E u \in Units :
        /\ pc[u] = "returned" /\ result[u] = NoneVal
        /\ calls[u] = 3 /\ slept[u] = <<1, 2>>
        /\ phase = "done"

\* C5: the returned map holds exactly the units one of whose attempts returned,
\* each with the text that attempt returned, whatever the text.
C5_PartialFailure ==
    phase = "done" =>
        /\ DOMAIN returned.val = Succeeded
        /\ \A u \in Succeeded : returned.val[u] = result[u]

\* C6: the loop index walks the list in steps of batch_size; the tasks alive
\* are those of the batch at the index; no unit of a later batch is called
\* before every unit of each earlier batch has returned; at most batch_size
\* calls are in flight.
C6_BatchSequencing ==
    /\ i % batch_size = 0
    /\ \A u \in Units :
          pc[u] \in {"ready", "calling", "sleeping"} =>
              /\ phase = "gather"
              /\ u \in Listed
              /\ i <= u /\ u < i + batch_size
    /\ \A u, v \in Listed :
          (u \div batch_size < v \div batch_size /\ calls[v] > 0) => pc[u] = "returned"
    /\ Cardinality({u \in Units : pc[u] = "calling"}) <= batch_size

\* C6 witness: a unit of the second batch is being called, after a full first
\* batch with a retried unit.
C6_Witness ==
    \E v \in Listed :
        /\ v >= batch_size
        /\ pc[v] = "calling"
        /\ \E u \in Listed : u < batch_size /\ fails[u] > 0

\* C7: on a fresh job, whenever the process stops, the translations file holds
\* every unit whose transform returned in a batch completed before the one in
\* progress.
C7_BoundedLoss ==
    prior.st = "absent" =>
        \A u \in Listed :
            (u < i /\ result[u] # NoneVal) =>
                /\ TranslationsFile.st = "full"
                /\ u \in DOMAIN TranslationsFile.data

\* A unit that is one sentence: one paragraph at most, with no sentence
\* boundary inside.
SingleSentence(unit) == Markers(unit) <= 1 /\ FirstBoundary(unit) = 0

\* C8: no unit split_content returns is longer than the limit, except a unit
\* that is a single sentence.
C8_SizeBound ==
    out.st = "ok" =>
        \A j \in 1 .. Len(out.chunks) :
            PyLen(out.chunks[j]) <= limit \/ SingleSentence(out.chunks[j])

\* A text without its whitespace.
RECURSIVE NoSpace(_)
NoSpace(s) == IF s = <<>> THEN <<>>
              ELSE (IF Head(s) = " " THEN <<>> ELSE <<Head(s)>>) \o NoSpace(Tail(s))

\* The length of the longest sentence of a text.
RECURSIVE MaxPyLen(_)
MaxPyLen(list) == IF list = <<>> THEN 0
                  ELSE IF PyLen(Head(list)) > MaxPyLen(Tail(list))
                       THEN PyLen(Head(list)) ELSE MaxPyLen(Tail(list))
LongestSentence(c) == MaxPyLen(SentencePieces(c))

\* C9: with a limit of at least the longest sentence of the content, the units
\* split_content returns, concatenated, are the content up to whitespace.
C9_RoundTrip ==
    (out.st = "ok" /\ limit >= LongestSentence(content)) =>
        NoSpace(Concat(out.chunks)) = NoSpace(content)

\* The member of the output written for member m of the input, and the chunks
\* split_content recovers from that member.
Recovered(m) == split_content(doc[m].content, DefaultMaxChunkSize).chunks

\* The id whose provenance is (filename, pos).
IdAt(filename, pos) ==
    CHOOSE id \in DOMAIN extracted.chapter_map :
        extracted.chapter_map[id] = <<filename, pos>>

\* C10: in every HTML member, the unit recovered at position p is replaced by
\* the translation of the id whose provenance is (member, p) when that id is
\* translated, and is kept otherwise, also among units of equal text.
C10_PositionalReassembly ==
    output.st = "ok" =>
        \A m \in 1 .. Len(doc) :
            IsHtml(doc[m].filename) =>
                output.members[m].content =
                    Concat([p \in 1 .. Len(Recovered(m)) |->
                              IF IdAt(doc[m].filename, p - 1) \in DOMAIN re_translations
                              THEN re_translations[IdAt(doc[m].filename, p - 1)]
                              ELSE Recovered(m)[p]])

\* The units of the section filename in the chapter map of the extraction.
UnitsOf(filename) ==
    {id \in DOMAIN extracted.chapter_map : extracted.chapter_map[id][1] = filename}

\* C11: reassembly leaves untranslated sections unchanged: the output holds the
\* sections of the input in the input's order, and every section none of
\* whose units has an entry in the result map is written with the very
\* content it has in the input.
C11_UntranslatedUnchanged ==
    output.st = "ok" =>
        /\ Len(output.members) = Len(doc)
        /\ \A j \in 1 .. Len(doc) :
              /\ output.members[j].filename = doc[j].filename
              /\ (UnitsOf(doc[j].filename) \cap DOMAIN re_translations = {}
                    => output.members[j].content = doc[j].content)

\* C12: structural mismatch is fatal: reassemble does not end normally when,
\* for some section, the number of units that re-segmentation recovers differs
\* from the number of provenance entries of that section.
C12_MismatchIsFatal ==
    output.st = "ok" =>
        \A j \in 1 .. Len(doc) :
            IsHtml(doc[j].filename) =>
                Len(Recovered(j)) = Cardinality(UnitsOf(doc[j].filename))

\* The file a load call reads, and what the call returns for no prior state.
PathOf(op) ==
    CASE op = "load_state" -> "state_file"
      [] op = "load_translations" -> "translations_file"
      [] OTHER -> "chunks_file"
NoPriorState(op) ==
    CASE op = "load_state" -> NoneVal
      [] op = "load_translations" -> <<>>
      [] OTHER -> <<NoneVal, NoneVal>>

\* A file that is not a document of the kind the call reads.
Malformed(op, file) ==
    \/ file.st = "partial"
    \/ /\ op = "load_chunks"
       /\ file.st = "full"
       /\ ~({"chunks", "chapter_map"} \subseteq DOMAIN file.data)

\* C13: graceful resume: a load call on a state file that is missing or
\* malformed raises no error and reports no prior state (None, an empty map,
\* (None, None)).
C13_GracefulResume ==
    (/\ loaded.op # "none"
     /\ \/ files[PathOf(loaded.op)].st = "absent"
        \/ Malformed(loaded.op, files[PathOf(loaded.op)]))
    => (loaded.st = "ok" /\ loaded.val = NoPriorState(loaded.op))

\* The translations file as it was when the save call in progress was made:
\* the units stored before this one, or the file the run started from.
BeforeThisSave ==
    IF DOMAIN translations \ {i + k} = {}
    THEN prior
    ELSE Full([u \in DOMAIN translations \ {i + k} |-> translations[u]])

\* C14: persistence failure is fatal and leaves the disk consistent: when a
\* write of save_translations fails, the exception leaves the save call and
\* process_batch (which returns nothing and does nothing more), the
\* translations file holds the complete content it had before the call, and
\* no temporary file is left.
C14_PersistenceFailure ==
    /\ [](phase = "raised" =>
            /\ ~returned.set
            /\ TranslationsFile = BeforeThisSave
            /\ TranslationsFile.st # "partial"
            /\ \A p \in TmpPaths : files[p].st = "absent")
    /\ [][aw.pc \in {"failing", "raise"} /\ ~crashed' =>
            \/ aw'.pc \in {"failing", "raise"} /\ TranslationsFile' = TranslationsFile
            \/ phase' = "raised"]_vars
    /\ [][phase = "raised" =>
            phase' = "raised" /\ files' = files /\ returned' = returned]_vars

\* A save call of the run failed after an earlier one had worked.
C14_Witness ==
    /\ phase = "raised"
    /\ prior = Absent
    /\ TranslationsFile.st = "full"
    /\ DOMAIN TranslationsFile.data # DOMAIN translations

\* The member of the input a unit comes from, by its place in the document.
MemberIndex(filename) == CHOOSE j \in 1 .. Len(doc) : doc[j].filename = filename

\* The i-th unit of the list (from 0) has the id chunk-i.
IdsCountUp(chunks) == \A j \in 1 .. Len(chunks) : chunks[j][1] = j - 1

\* C15: unit identity: in the unit list of one extraction (extract_chunks or
\* transcribe_pdf) the i-th unit, zero-based, has the id chunk-i; the ids are
\* pairwise distinct and their numbers strictly increase along the list; and
\* the list goes through the sections in the order they are met and through
\* each section in the order of its units.
C15_UnitIdentity ==
    /\ extracted.st = "ok" =>
          /\ IdsCountUp(extracted.chunks)
          /\ \A x, y \in 1 .. Len(extracted.chunks) :
                x < y =>
                  /\ extracted.chunks[x][1] < extracted.chunks[y][1]
                  /\ LET px == extracted.chapter_map[extracted.chunks[x][1]]
                         py == extracted.chapter_map[extracted.chunks[y][1]]
                     IN  \/ MemberIndex(px[1]) < MemberIndex(py[1])
                         \/ px[1] = py[1] /\ px[2] < py[2]
    /\ transcribed.st = "ok" =>
          /\ IdsCountUp(transcribed.chunks)
          /\ \A x, y \in 1 .. Len(transcribed.chunks) :
                x < y => transcribed.chunks[x][1] < transcribed.chunks[y][1]

\* An extraction that listed units of two sections, one of them with two.
C15_Witness ==
    /\ extracted.st = "ok"
    /\ Len(extracted.chunks) >= 3
    /\ extracted.chapter_map[0][1] # extracted.chapter_map[2][1]

\* The file and the position of the j-th unit of the extraction's list.
FileOfUnit(j) == extracted.chapter_map[extracted.chunks[j][1]][1]
PosOfUnit(j) == extracted.chapter_map[extracted.chunks[j][1]][2]

\* C16: provenance positions: the provenance map of an extraction has exactly
\* one entry for every unit id of the list, and the positions of the units of
\* one section are 0, 1, ..., k-1 in the order the units have in the list.
C16_ProvenancePositions ==
    /\ extracted.st = "ok" =>
          /\ DOMAIN extracted.chapter_map =
                 {extracted.chunks[j][1] : j \in 1 .. Len(extracted.chunks)}
          /\ Cardinality(DOMAIN extracted.chapter_map) = Len(extracted.chunks)
          /\ \A j \in 1 .. Len(extracted.chunks) :
                PosOfUnit(j) =
                    Cardinality({x \in 1 .. (j - 1) : FileOfUnit(x) = FileOfUnit(j)})
          /\ \A m \in 1 .. Len(doc) :
                {extracted.chapter_map[id][2] : id \in UnitsOf(doc[m].filename)} =
                    0 .. (Cardinality(UnitsOf(doc[m].filename)) - 1)
    /\ transcribed.st = "ok" =>
          /\ DOMAIN transcribed.chapter_map =
                 {transcribed.chunks[j][1] : j \in 1 .. Len(transcribed.chunks)}
          /\ \A x, y \in DOMAIN transcribed.chapter_map :
                /\ transcribed.chapter_map[x].pos = 0
                /\ x # y => transcribed.chapter_map[x].item # transcribed.chapter_map[y].item

\* An extraction with a section of two units after a section with units.
C16_Witness ==
    /\ extracted.st = "ok"
    /\ \E x, y \in DOMAIN extracted.chapter_map :
          /\ extracted.chapter_map[x][2] = 1
          /\ extracted.chapter_map[y][2] = 0
          /\ y < x
          /\ extracted.chapter_map[y][1] # extracted.chapter_map[x][1]

\* The "Processed n/N" lines of the progress log, in the order of the log.
IsProcessedLine(line) == line.kind = "processed"
ProcessedLines == SelectSeq(progress_log, IsProcessedLine)

\* ceil(a / b)
CeilDiv(a, b) == (a + b - 1) \div b

\* C17: progress log: process_batch appends one "Processed n/N" line after
\* each batch, in batch order, so ceil(N / batch_size) lines in a whole run of
\* N units; the n of the j-th line counts the units stored in the first j
\* batches, so n never decreases from line to line and never exceeds N.
C17_ProgressLog ==
    /\ Len(ProcessedLines) = CeilDiv(Min(i, n_chunks), batch_size)
    /\ phase = "done" => Len(ProcessedLines) = CeilDiv(n_chunks, batch_size)
    /\ \A j \in 1 .. Len(ProcessedLines) :
          /\ ProcessedLines[j].b = n_chunks
          /\ ProcessedLines[j].a =
                Cardinality({u \in Listed : u < j * batch_size /\ Truthy(result[u])})
          /\ ProcessedLines[j].a <= n_chunks
          /\ j > 1 => ProcessedLines[j - 1].a <= ProcessedLines[j].a

\* A whole run of two batches whose second line counts more than the first.
C17_Witness ==
    /\ phase = "done"
    /\ Len(ProcessedLines) >= 2
    /\ ProcessedLines[1].a < ProcessedLines[2].a

\* The result map that the outcomes of the units before `upto` determine.
MapOfOutcomes(upto) ==
    [u \in {x \in Listed : x < upto /\ Truthy(result[x])} |-> result[u]]

\* C18: completion-order independence: whatever the interleaving and the
\* completion order of the calls of a batch, the result map persisted after
\* each batch and the map returned are the ones that the outcomes of the
\* units (a text or a failure) determine, each text under its own unit.
C18_CompletionOrder ==
    /\ phase = "loop" =>
          /\ translations = MapOfOutcomes(i)
          /\ TranslationsFile = IF DOMAIN MapOfOutcomes(i) = {}
                                THEN prior
                                ELSE Full(MapOfOutcomes(i))
    /\ returned.set => returned.val = MapOfOutcomes(n_chunks)

\* A batch whose second unit was done at once while the first had to retry.
C18_Witness ==
    /\ returned.set
    /\ {0, 1} \subseteq DOMAIN returned.val
    /\ fails[0] > 0
    /\ fails[1] = 0

\* A progress record whose chunks_completed is at most its chunks_total.
WithinTotal(record) == record.chunks_completed <= record.chunks_total

\* C19: progress bound: every progress record that save_state persists, and
\* every one that load_state returns, has chunks_completed <= chunks_total.
C19_ProgressBound ==
    /\ files["state_file"].st = "full" => WithinTotal(files["state_file"].data)
    /\ (loaded.op = "load_state" /\ loaded.st = "ok" /\ loaded.val # NoneVal)
          => WithinTotal(loaded.val)

\* C20: best-effort logging: an append to the progress log that fails raises
\* nothing out of log_progress: process_chunk still returns None, the batch
\* loop still steps, the job is never left with an exception, the result map
\* and the files are as they were, and the map returned is the one the
\* outcomes of the units determine.
C20_BestEffortLogging ==
    /\ [](phase # "raised")
    /\ [](returned.set => returned.val = MapOfOutcomes(n_chunks))
    /\ [][stdout' # stdout =>
            /\ files' = files
            /\ translations' = translations
            /\ progress_log' = progress_log
            /\ state_cache' = state_cache
            /\ translations_cache' = translations_cache
            /\ \/ phase = "gather" /\ phase' = "gather" /\
                  \E u \in Units : pc[u] = "calling" /\ pc'[u] = "returned"
                                      /\ result'[u] = NoneVal
               \/ phase = "zip" /\ phase' = "loop" /\ i' = i + batch_size]_vars

\* A run that returned a result although appends to the log had failed, for
\* a failed unit and for a batch.
C20_Witness ==
    /\ returned.set
    /\ DOMAIN returned.val # {}
    /\ \E x, y \in 1 .. Len(stdout) :
          stdout[x].kind = "failed" /\ stdout[y].kind = "processed"

\* C21: result cache consistency: whenever no save call is in progress, after
\* a save_translations whose write failed too, the store's result cache, when
\* set, holds the result map that was last written to the translations file.
C21_CacheConsistency ==
    (~crashed /\ aw.pc = "idle" /\ translations_cache.ref # "none")
        => TranslationsFile = Full(CachedTranslations)

\* C22: unit-list round trip: load_chunks after save_chunks on the pair an
\* extraction returned (extract_chunks or transcribe_pdf) returns the same
\* unit list, and a provenance map that gives every id the item and the
\* position the extraction gave it.
C22_UnitListRoundTrip ==
    loaded.op = "load_chunks" =>
        /\ loaded.st = "ok"
        /\ IF extracted.st = "ok"
           THEN /\ loaded.val[1] = extracted.chunks
                /\ loaded.val[2] = extracted.chapter_map
           ELSE /\ loaded.val[1] = transcribed.chunks
                /\ DOMAIN loaded.val[2] = DOMAIN transcribed.chapter_map
                /\ \A id \in DOMAIN transcribed.chapter_map :
                      /\ loaded.val[2][id][1] = transcribed.chapter_map[id].item
                      /\ loaded.val[2][id][2] = transcribed.chapter_map[id].pos

====
